---- MODULE Spec2Model ----
(***************************************************************************)
(* JSAutoMail (src/index.js, lines 1-281): the certificate pipeline.       *)
(* One process per run; successive runs (cron) share the ledger file       *)
(* sent_emails.txt, the pdfs directory and the roster.                     *)
(* Strings that the code normalises (e-mails, ledger contents) are         *)
(* sequences of one-character strings, so that toLowerCase, trim and split *)
(* are computed and not assumed.                                           *)
(***************************************************************************)
EXTENDS Integers, Sequences, FiniteSets, TLC

\* ------------------------------------------------------------------ bounds
MaxRoster == 2      \* rows in the roster
MaxRuns == 2        \* successive runs of the process
MaxFalhas == 2      \* failures and signals met by the runs, all together

\* ------------------------------------------------------- strings and chars
NL == "\n"
WhiteSpace == {" ", "\t", "\r", NL}

\* String.prototype.toLowerCase, on the alphabet of the model
LowerChar(c) ==
    CASE c = "A" -> "a"
      [] c = "B" -> "b"
      [] OTHER -> c

ToLowerCase(s) == [k \in 1..Len(s) |-> LowerChar(s[k])]

RECURSIVE TrimStart(_)
TrimStart(s) ==
    IF s = <<>> THEN <<>>
    ELSE IF Head(s) \in WhiteSpace THEN TrimStart(Tail(s)) ELSE s

RECURSIVE TrimEnd(_)
TrimEnd(s) ==
    IF s = <<>> THEN <<>>
    ELSE IF s[Len(s)] \in WhiteSpace THEN TrimEnd(SubSeq(s, 1, Len(s) - 1)) ELSE s

\* String.prototype.trim
Trim(s) == TrimEnd(TrimStart(s))

\* String.prototype.split(sep), sep one character: always at least one piece
RECURSIVE SplitFrom(_, _, _, _)
SplitFrom(s, sep, k, cur) ==
    IF k > Len(s) THEN <<cur>>
    ELSE IF s[k] = sep THEN <<cur>> \o SplitFrom(s, sep, k + 1, <<>>)
    ELSE SplitFrom(s, sep, k + 1, Append(cur, s[k]))

Split(s, sep) == SplitFrom(s, sep, 1, <<>>)

Range(s) == {s[k] : k \in 1..Len(s)}

\* ---------------------------------------------------------------- ledger
\* loadSentEmails, lines 22-25: the lines of the file, blank ones dropped,
\* each trimmed and then lower-cased, as a Set
ParseLedger(data) ==
    {ToLowerCase(Trim(l)) : l \in {x \in Range(Split(data, NL)) : Trim(x) # <<>>}}

\* loadSentEmails, lines 17-26
LoadSentEmails(exists, data) == IF ~exists THEN {} ELSE ParseLedger(data)

\* the append without its line terminator
LedgerLineSemNL(email) == Trim(ToLowerCase(email))

\* addSentEmail, line 34: the line appended to the file
LedgerLine(email) == Trim(ToLowerCase(email)) \o <<NL>>

\* ---------------------------------------------------------------- roster
\* One row as pushed by the 'data' handler, lines 183-190.  semEmail: the
\* e-mail column is missing from the row, so that email is undefined.
Row(n, e) == [name |-> n, email |-> e, semEmail |-> FALSE]
RowSemEmail(n) == [name |-> n, email |-> <<>>, semEmail |-> TRUE]

Participants ==
    { Row("Ana", <<"a">>),
      Row("Ana", <<" ", "A", " ">>),
      Row("Bia", <<"b">>),
      Row("Bia", <<>>),
      Row("Ana", <<" ">>),
      RowSemEmail("Bia") }

Rosters == UNION {[1..n -> Participants] : n \in 0..MaxRoster}

\* the filter without its p.email guard
TruthySempre(p) == TRUE

\* JS truthiness of p.email, line 193: undefined and "" are falsy
Truthy(p) == ~p.semEmail /\ p.email # <<>>

\* the filter comparing the raw e-mail with the ledger
ManterSemNormalizar(p, sent) == Truthy(p) /\ p.email \notin sent

\* the filter trimming the e-mail without lower-casing it
ManterSemMinusculas(p, sent) == Truthy(p) /\ Trim(p.email) \notin sent

\* line 193: p.email && !sentEmails.has(p.email.toLowerCase().trim())
Manter(p, sent) == Truthy(p) /\ Trim(ToLowerCase(p.email)) \notin sent

\* the rows kept handed over last row first
FiltrarInvertido(results, sent) ==
    LET f == SelectSeq([k \in 1..Len(results) |-> k], LAMBDA k : Manter(results[k], sent))
    IN  [k \in 1..Len(f) |-> f[Len(f) + 1 - k]]

\* line 193: results.filter(...), as the indices of the rows kept, in order
Filtrar(results, sent) ==
    SelectSeq([k \in 1..Len(results) |-> k], LAMBDA k : Manter(results[k], sent))

\* ------------------------------------------------------ startup validation
\* lines 45-50
envVars ==
    <<"JSAUTOMAIL_EMAIL", "JSAUTOMAIL_PASSWORD", "JSAUTOMAIL_USERNAME",
      "JSAUTOMAIL_PLANILHA">>

EnvVarSet == Range(envVars)

\* every item verificarRequisitos looks at
Itens == EnvVarSet \cup {"templates", "pdfs", "internet", "planilha"}

\* what can be absent when the synchronous checks run: any of the variables
\* and the templates folder
Ambientes == SUBSET (EnvVarSet \cup {"templates"})

\* lines 53-60: the loop over envVars; amb is the set of absent things
RECURSIVE VerificarVars(_, _, _)
VerificarVars(vars, amb, acc) ==
    IF vars = <<>> THEN acc
    ELSE VerificarVars(Tail(vars), amb,
            [ok |-> acc.ok /\ Head(vars) \notin amb,
             faltando |-> acc.faltando \cup ({Head(vars)} \cap amb),
             vistos |-> acc.vistos \cup {Head(vars)}])

\* the loop leaving at the first absent variable
RECURSIVE VerificarVarsBreak(_, _, _)
VerificarVarsBreak(vars, amb, acc) ==
    IF vars = <<>> \/ ~acc.ok THEN acc
    ELSE VerificarVarsBreak(Tail(vars), amb,
            [ok |-> acc.ok /\ Head(vars) \notin amb,
             faltando |-> acc.faltando \cup ({Head(vars)} \cap amb),
             vistos |-> acc.vistos \cup {Head(vars)}])

VerificarEnvVarsBreak(amb) ==
    VerificarVarsBreak(envVars, amb, [ok |-> TRUE, faltando |-> {}, vistos |-> {}])

VerificarEnvVars(amb) ==
    VerificarVars(envVars, amb, [ok |-> TRUE, faltando |-> {}, vistos |-> {}])

\* the probes sent without { method: "HEAD" }
MetodoProbeGET == "GET"

\* lines 89 and 106: both probes are HEAD requests
MetodoProbe == "HEAD"

\* line 120: if (!tudoCerto) process.exit(1)
Reprovado(tc) == ~tc

\* ------------------------------------------------------------------ state
VARIABLES
    roster,         \* the remote sheet: a sequence of rows
    ledgerExists,   \* sent_emails.txt exists
    ledgerData,     \* its contents, a sequence of characters
    pdfsDir,        \* ./pdfs exists
    run,            \* number of the current run (0: none started)
    totalEnviados,  \* sendMail calls that resolved, over all runs
    gravados,       \* normalised e-mails whose append completed, over all runs
    pc,             \* position of the current run
    exitCode,       \* exit code of the process, -1 while it runs
    ausentes,       \* what is really absent or unreachable in this run
    tudoCerto,      \* line 42
    faltando,       \* items reported with a cross mark
    verificados,    \* items looked at so far
    netLog,         \* requests issued in this run: <<method, target>>
    criouPasta,     \* mkdirSync ran in this run (line 78)
    ledgerLen0,     \* length of ledgerData when the run started
    carregou,       \* loadSentEmails returned (line 135)
    sentEmails,     \* line 135
    browser,        \* "none", "open", "closed"
    erro,           \* the catch of line 273 ran
    results,        \* line 170
    newParticipants,\* line 193, as indices of roster rows
    i,              \* position of the loop of line 211
    certificates,   \* line 209, as indices of roster rows
    renderFalhou,   \* rows whose gerarPDF threw (line 218)
    j,              \* position of the loop of line 243
    enviados,       \* rows whose sendMail resolved (line 257)
    envioFalhou,    \* rows whose sendMail threw
    registrados,    \* rows whose addSentEmail returned (line 259)
    registroFalhou, \* rows whose addSentEmail threw
    pausou,         \* the pause of line 260 ran since the last sendMail call
    iniciados,      \* rows for which gerarPDF was called (line 213), in order
    ordemEnvio,     \* rows for which sendMail was called (line 257), in order
    sessoes,        \* puppeteer.launch calls that returned in this run
    paginas,        \* browser.newPage calls that returned in this run
    logContagens,   \* the counts written to the console (lines 136, 192, 194)
    pdfs,           \* the files of ./pdfs, by path
    renderizados,   \* <<name, email>> of every PDF written, over all runs
    interrompido,   \* the process was killed where pc stands
    falhas          \* failures and signals met so far, over all runs

global == <<roster, ledgerExists, ledgerData, pdfsDir, run, totalEnviados, gravados>>
valid == <<ausentes, tudoCerto, faltando, verificados, netLog, criouPasta>>
carga == <<ledgerLen0, carregou, sentEmails, browser, erro, results, newParticipants>>
lotes == <<i, certificates, renderFalhou, j, enviados, envioFalhou, registrados,
           registroFalhou>>
histRun == <<pausou, iniciados, ordemEnvio, sessoes, paginas, logContagens>>
arquivos == <<pdfs, renderizados>>
vars == <<global, pc, exitCode, valid, carga, lotes, histRun, arquivos, interrompido,
          falhas>>

\* n more failures are met, within what the behaviour may meet
Falha(n) == falhas + n <= MaxFalhas /\ falhas' = falhas + n

\* nothing counted on the console yet
SemContagens == [anteriores |-> -1, carregado |-> -1, prontos |-> -1]

Init ==
    /\ roster \in Rosters
    /\ ledgerExists = FALSE
    /\ ledgerData = <<>>
    /\ pdfsDir = FALSE
    /\ run = 0
    /\ totalEnviados = 0
    /\ gravados = {}
    /\ pc = "idle"
    /\ exitCode = -1
    /\ ausentes = {}
    /\ tudoCerto = TRUE
    /\ faltando = {}
    /\ verificados = {}
    /\ netLog = {}
    /\ criouPasta = FALSE
    /\ ledgerLen0 = 0
    /\ carregou = FALSE
    /\ sentEmails = {}
    /\ browser = "none"
    /\ erro = FALSE
    /\ results = <<>>
    /\ newParticipants = <<>>
    /\ i = 1
    /\ certificates = <<>>
    /\ renderFalhou = {}
    /\ j = 1
    /\ enviados = {}
    /\ envioFalhou = {}
    /\ registrados = {}
    /\ registroFalhou = {}
    /\ pausou = FALSE
    /\ iniciados = <<>>
    /\ ordemEnvio = <<>>
    /\ sessoes = 0
    /\ paginas = 0
    /\ logContagens = SemContagens
    /\ pdfs = {}
    /\ renderizados = {}
    /\ interrompido = FALSE
    /\ falhas = 0

Terminal == {"idle", "done", "exited", "crashed"}

\* line 281: main() of a new process (cron starts one after the other)
StartRun ==
    /\ pc \in Terminal \/ interrompido
    /\ interrompido' = FALSE
    /\ run < MaxRuns
    /\ run' = run + 1
    /\ pc' = "verificar"
    /\ exitCode' = -1
    /\ ausentes' = {}
    /\ tudoCerto' = TRUE
    /\ faltando' = {}
    /\ verificados' = {}
    /\ netLog' = {}
    /\ criouPasta' = FALSE
    /\ ledgerLen0' = Len(ledgerData)
    /\ carregou' = FALSE
    /\ sentEmails' = {}
    /\ browser' = "none"
    /\ erro' = FALSE
    /\ results' = <<>>
    /\ newParticipants' = <<>>
    /\ i' = 1
    /\ certificates' = <<>>
    /\ renderFalhou' = {}
    /\ j' = 1
    /\ enviados' = {}
    /\ envioFalhou' = {}
    /\ registrados' = {}
    /\ registroFalhou' = {}
    /\ pausou' = FALSE
    /\ iniciados' = <<>>
    /\ ordemEnvio' = <<>>
    /\ sessoes' = 0
    /\ paginas' = 0
    /\ logContagens' = SemContagens
    /\ UNCHANGED <<roster, ledgerExists, ledgerData, pdfsDir, totalEnviados, gravados>>
    /\ UNCHANGED <<arquivos, falhas>>

\* verificarRequisitos, lines 42-89: the environment variables, the two
\* folders, and the first probe is sent
VerificarSync ==
    /\ pc = "verificar"
    /\ ~interrompido
    /\ UNCHANGED interrompido
    /\ \E amb \in Ambientes :
        LET r == VerificarEnvVars(amb)
            semTemplates == "templates" \in amb
        IN  /\ ausentes' = amb
            /\ tudoCerto' = (r.ok /\ ~semTemplates)
            /\ faltando' = r.faltando \cup (IF semTemplates THEN {"templates"} ELSE {})
            /\ verificados' = r.vistos \cup {"templates", "pdfs"}
            /\ Falha(Cardinality(amb))
    /\ pdfsDir' = TRUE
    /\ criouPasta' = ~pdfsDir
    /\ netLog' = netLog \cup {<<MetodoProbe, "google">>}
    /\ pc' = "internet"
    /\ UNCHANGED <<roster, ledgerExists, ledgerData, run, totalEnviados, gravados>>
    /\ UNCHANGED <<exitCode, carga, lotes, histRun, arquivos>>

\* lines 88-106: the answer of the first probe; the second probe is sent
ProbeInternet ==
    /\ pc = "internet"
    /\ ~interrompido
    /\ UNCHANGED interrompido
    /\ \E res \in {"ok", "instavel", "excecao"} :
        /\ tudoCerto' = (tudoCerto /\ res # "excecao")
        /\ faltando' = faltando \cup (IF res = "excecao" THEN {"internet"} ELSE {})
        /\ ausentes' = ausentes \cup (IF res = "excecao" THEN {"internet"} ELSE {})
        /\ Falha(IF res = "ok" THEN 0 ELSE 1)
    /\ verificados' = verificados \cup {"internet"}
    /\ netLog' = netLog \cup {<<MetodoProbe, "planilha">>}
    /\ pc' = "planilha"
    /\ UNCHANGED <<global, exitCode, criouPasta, carga, lotes, histRun, arquivos>>

\* lines 105-127: the answer of the second probe and the verdict
ProbePlanilha ==
    /\ pc = "planilha"
    /\ ~interrompido
    /\ UNCHANGED interrompido
    /\ \E res \in {"ok", "http", "excecao"} :
        /\ tudoCerto' = (tudoCerto /\ res = "ok")
        /\ faltando' = faltando \cup (IF res # "ok" THEN {"planilha"} ELSE {})
        /\ ausentes' = ausentes \cup (IF res # "ok" THEN {"planilha"} ELSE {})
        /\ Falha(IF res = "ok" THEN 0 ELSE 1)
    /\ verificados' = verificados \cup {"planilha"}
    /\ IF Reprovado(tudoCerto')
         THEN pc' = "exited" /\ exitCode' = 1
         ELSE pc' = "load" /\ exitCode' = exitCode
    /\ UNCHANGED <<global, netLog, criouPasta, carga, lotes, histRun, arquivos>>

\* ---------------------------------------------------------------- pipeline
\* the 'error' handler resolving with the rows instead of rejecting
LerCSVResolveNoErro(res, rows, sent) ==
    [erro |-> res # "ok", results |-> rows, novos |-> Filtrar(rows, sent)]

\* lines 174-175 and 191-200: what lerCSV hands to main.  res is "ok" (the
\* stream ended), "indisponivel" (fetch threw or answered non-ok) or "csv"
\* (the stream emitted 'error')
LerCSVResultado(res, rows, sent) ==
    IF res = "ok"
      THEN [erro |-> FALSE, results |-> rows, novos |-> Filtrar(rows, sent)]
      ELSE [erro |-> TRUE, results |-> <<>>, novos |-> <<>>]

\* the try/catch around the whole loop: a failure ends it
AposFalhaRenderAborta(k, n) == n + 1

\* lines 211-221: the row the loop takes after row k of n threw in gerarPDF
AposFalhaRender(k, n) == k + 1

\* lines 214-217: a certificate is pushed only when gerarPDF returned
EntraNosCertificados(gerou) == gerou

\* the try/catch around the whole loop: a failure ends it
AposFalhaEnvioAborta(k, n) == n + 1

\* a failed send tried again until it succeeds
AposFalhaEnvioRepete(k, n) == k

\* lines 243-264: the certificate the loop takes after the send of k of n threw
AposFalhaEnvio(k, n) == k + 1

\* the loop without its call of addSentEmail
DeveRegistrarNunca(enviou) == FALSE

\* addSentEmail placed where a failed send reaches it too
DeveRegistrarSempre(enviou) == TRUE

\* lines 257-259: addSentEmail is reached only when sendMail resolved
DeveRegistrar(enviou) == enviou

\* lines 206, 228-231 and 272-277: where main waits once the renders are over
AposRenders(certs) == IF certs = <<>> THEN "close" ELSE "enviar"

\* gerarPDF called for every row at once, the promises awaited together
IniciarTodos(novos, k) == IF k = 1 THEN novos ELSE <<>>

\* lines 211-213: the rows for which gerarPDF is called when the loop
\* reaches position k: one, and none once the list is over
Iniciar(novos, k) == IF k <= Len(novos) THEN <<novos[k]>> ELSE <<>>

\* lines 143-166: gerarPDF works on the page of main and launches nothing
NovasSessoes(k) == 0

\* a path that also carries the number of the run
PdfPathPorRodada(p) ==
    <<p.name, " ", "-", " ", "(">> \o p.email \o <<")", "-", run, ".", "p", "d", "f">>

\* line 154: `./pdfs/${participant.name} - (${participant.email}).pdf`
PdfPath(p) ==
    <<p.name, " ", "-", " ", "(">> \o p.email \o <<")", ".", "p", "d", "f">>

\* each certificate handed to the sends as soon as it is rendered
DepoisDoRenderEnviaLogo(prox, n, certs) ==
    IF certs # <<>> THEN "enviar" ELSE IF prox <= n THEN "gerar" ELSE "close"

\* lines 211-224 and 271-272: main goes on with the next render, and with
\* the sends only when the loop is over
DepoisDoRender(prox, n, certs) == IF prox <= n THEN "gerar" ELSE AposRenders(certs)

\* readFileSync called without the existsSync guard
LeituraSemGuarda(exists) == TRUE

\* lines 18-22: readFileSync is reached only when the file exists
LeituraPodeFalhar(exists) == exists

\* line 192: results.length
ContagemCarregado(rows) == Len(rows)

\* line 194: newParticipants.length
ContagemProntos(novos, rows) == Len(novos)

\* line 135: loadSentEmails; readFileSync may throw on a file that exists,
\* and nothing catches it: the process dies with code 1
LoadLedger ==
    /\ pc = "load"
    /\ ~interrompido
    /\ UNCHANGED interrompido
    /\ \/ /\ sentEmails' = LoadSentEmails(ledgerExists, ledgerData)
          /\ carregou' = TRUE
          /\ logContagens' =
                [logContagens EXCEPT !.anteriores = Cardinality(sentEmails')]
          /\ pc' = "launch"
          /\ exitCode' = exitCode
          /\ Falha(0)
       \/ /\ LeituraPodeFalhar(ledgerExists)
          /\ pc' = "crashed"
          /\ exitCode' = 1
          /\ Falha(1)
          /\ UNCHANGED <<sentEmails, carregou, logContagens>>
    /\ UNCHANGED <<global, valid, lotes, arquivos>>
    /\ UNCHANGED <<ledgerLen0, browser, erro, results, newParticipants>>
    /\ UNCHANGED <<pausou, iniciados, ordemEnvio, sessoes, paginas>>

\* lines 140-141 and 270, 172-173: the browser and its page; then lerCSV
\* sends the GET for the sheet
Launch ==
    /\ pc = "launch"
    /\ ~interrompido
    /\ UNCHANGED interrompido
    /\ \/ /\ browser' = "open"
          /\ sessoes' = sessoes + 1
          /\ paginas' = paginas + 1
          /\ pc' = "lerCSV"
          /\ netLog' = netLog \cup {<<"GET", "planilha">>}
          /\ exitCode' = exitCode
          /\ Falha(0)
       \/ /\ browser' = "none"        \* puppeteer.launch threw
          /\ UNCHANGED <<sessoes, paginas>>
          /\ pc' = "crashed"
          /\ exitCode' = 1
          /\ netLog' = netLog
          /\ Falha(1)
       \/ /\ browser' = "open"        \* browser.newPage threw
          /\ sessoes' = sessoes + 1
          /\ paginas' = paginas
          /\ pc' = "crashed"
          /\ exitCode' = 1
          /\ netLog' = netLog
          /\ Falha(1)
    /\ UNCHANGED <<global, lotes, arquivos>>
    /\ UNCHANGED <<pausou, iniciados, ordemEnvio, logContagens>>
    /\ UNCHANGED <<ausentes, tudoCerto, faltando, verificados, criouPasta>>
    /\ UNCHANGED <<ledgerLen0, carregou, sentEmails, erro, results, newParticipants>>

\* lines 173-201 and 270-275: the answer of the sheet, the filter, and on an
\* error the catch of main
LerCSV ==
    /\ pc = "lerCSV"
    /\ ~interrompido
    /\ UNCHANGED interrompido
    /\ \E res \in {"ok", "indisponivel", "csv"} :
        LET r == LerCSVResultado(res, roster, sentEmails) IN
        /\ erro' = r.erro
        /\ results' = r.results
        /\ newParticipants' = r.novos
        /\ pc' = IF r.novos = <<>> THEN "close" ELSE "gerar"
        /\ iniciados' = Iniciar(r.novos, 1)
        /\ Falha(IF res = "ok" THEN 0 ELSE 1)
        /\ logContagens' =
              IF r.erro THEN logContagens
              ELSE [logContagens EXCEPT !.carregado = ContagemCarregado(r.results),
                                        !.prontos = ContagemProntos(r.novos, r.results)]
    /\ UNCHANGED <<global, exitCode, valid, lotes, arquivos>>
    /\ UNCHANGED <<ledgerLen0, carregou, sentEmails, browser>>
    /\ UNCHANGED <<pausou, ordemEnvio, sessoes, paginas>>

\* lines 211-221, 143-166: gerarPDF of one participant returned or threw
GerarPDF ==
    /\ pc = "gerar"
    /\ ~interrompido
    /\ UNCHANGED interrompido
    /\ i <= Len(newParticipants)
    /\ \E gerou \in BOOLEAN :
        LET p == newParticipants[i]
            certs == IF EntraNosCertificados(gerou)
                       THEN Append(certificates, p) ELSE certificates
            prox == IF gerou THEN i + 1 ELSE AposFalhaRender(i, Len(newParticipants))
        IN  /\ certificates' = certs
            /\ renderFalhou' = IF gerou THEN renderFalhou ELSE renderFalhou \cup {p}
            /\ i' = prox
            /\ pc' = DepoisDoRender(prox, Len(newParticipants), certs)
            /\ iniciados' = iniciados \o Iniciar(newParticipants, prox)
            /\ pdfs' = IF gerou THEN pdfs \cup {PdfPath(roster[p])} ELSE pdfs
            /\ renderizados' =
                  IF gerou THEN renderizados \cup {<<roster[p].name, roster[p].email>>}
                           ELSE renderizados
            /\ sessoes' = sessoes + NovasSessoes(i)
            /\ Falha(IF gerou THEN 0 ELSE 1)
    /\ UNCHANGED <<global, exitCode, valid, carga>>
    /\ UNCHANGED <<j, enviados, envioFalhou, registrados, registroFalhou>>
    /\ UNCHANGED <<pausou, ordemEnvio, paginas, logContagens>>

\* lines 243-264: sendMail for one certificate resolved or threw; when it
\* resolved addSentEmail appends to the ledger, or throws into the same catch
SendMail ==
    /\ pc = "enviar"
    /\ ~interrompido
    /\ UNCHANGED interrompido
    /\ j <= Len(certificates)
    /\ \E enviou \in BOOLEAN, gravou \in BOOLEAN :
        LET c == certificates[j]
            email == roster[c].email
            registra == DeveRegistrar(enviou) /\ gravou
            falhou == ~enviou \/ ~registra
            prox == IF falhou THEN AposFalhaEnvio(j, Len(certificates)) ELSE j
        IN  /\ ~enviou => gravou      \* one outcome for a send that threw
            /\ enviados' = IF enviou THEN enviados \cup {c} ELSE enviados
            /\ envioFalhou' = IF enviou THEN envioFalhou ELSE envioFalhou \cup {c}
            /\ totalEnviados' = IF enviou THEN totalEnviados + 1 ELSE totalEnviados
            /\ registrados' = IF registra THEN registrados \cup {c} ELSE registrados
            /\ registroFalhou' = IF DeveRegistrar(enviou) /\ ~gravou
                                   THEN registroFalhou \cup {c} ELSE registroFalhou
            /\ ledgerData' = IF registra THEN ledgerData \o LedgerLine(email)
                                         ELSE ledgerData
            /\ ledgerExists' = (ledgerExists \/ registra)
            /\ gravados' = IF registra THEN gravados \cup {Trim(ToLowerCase(email))}
                                       ELSE gravados
            /\ ordemEnvio' = Append(ordemEnvio, c)
            /\ pausou' = FALSE
            /\ Falha(IF enviou /\ gravou THEN 0 ELSE 1)
            /\ j' = prox
            /\ pc' = IF ~falhou THEN "delay"
                     ELSE IF prox <= Len(certificates) THEN "enviar" ELSE "close"
    /\ UNCHANGED <<roster, pdfsDir, run>>
    /\ UNCHANGED <<exitCode, valid, carga, arquivos>>
    /\ UNCHANGED <<i, certificates, renderFalhou>>
    /\ UNCHANGED <<iniciados, sessoes, paginas, logContagens>>

\* line 260: the pause of one second after a send that was recorded
Delay ==
    /\ pc = "delay"
    /\ ~interrompido
    /\ UNCHANGED interrompido
    /\ j' = j + 1
    /\ pc' = IF j + 1 <= Len(certificates) THEN "enviar" ELSE "close"
    /\ UNCHANGED <<global, exitCode, valid, carga>>
    /\ UNCHANGED <<i, certificates, renderFalhou, enviados, envioFalhou, registrados,
                   registroFalhou>>
    /\ pausou' = TRUE
    /\ UNCHANGED <<iniciados, ordemEnvio, sessoes, paginas, logContagens, arquivos>>
    /\ UNCHANGED falhas

\* lines 277-278: browser.close() and the end of main
Close ==
    /\ pc = "close"
    /\ ~interrompido
    /\ UNCHANGED interrompido
    /\ browser' = "closed"
    /\ pc' = "done"
    /\ exitCode' = 0
    /\ UNCHANGED <<global, valid, lotes, histRun, arquivos, falhas>>
    /\ UNCHANGED <<ledgerLen0, carregou, sentEmails, erro, results, newParticipants>>

\* a signal ends the process wherever it stands; the sendMail or the
\* page.pdf in flight may have done its work already
Interromper ==
    /\ pc \notin Terminal
    /\ ~interrompido
    /\ interrompido' = TRUE
    /\ Falha(1)
    /\ \/ /\ UNCHANGED <<enviados, totalEnviados, ordemEnvio, pdfs, renderizados>>
       \/ /\ pc = "enviar"
          /\ enviados' = enviados \cup {certificates[j]}
          /\ totalEnviados' = totalEnviados + 1
          /\ ordemEnvio' = Append(ordemEnvio, certificates[j])
          /\ UNCHANGED <<pdfs, renderizados>>
       \/ /\ pc = "gerar"
          /\ pdfs' = pdfs \cup {PdfPath(roster[newParticipants[i]])}
          /\ renderizados' = renderizados \cup
                {<<roster[newParticipants[i]].name, roster[newParticipants[i]].email>>}
          /\ UNCHANGED <<enviados, totalEnviados, ordemEnvio>>
    /\ UNCHANGED <<roster, ledgerExists, ledgerData, pdfsDir, run, gravados>>
    /\ UNCHANGED <<pc, exitCode, valid, carga>>
    /\ UNCHANGED <<i, certificates, renderFalhou, j, envioFalhou, registrados,
                   registroFalhou>>
    /\ UNCHANGED <<pausou, iniciados, sessoes, paginas, logContagens>>

Next ==
    \/ StartRun
    \/ VerificarSync
    \/ ProbeInternet
    \/ ProbePlanilha
    \/ LoadLedger
    \/ Launch
    \/ LerCSV
    \/ GerarPDF
    \/ SendMail
    \/ Delay
    \/ Close
    \/ Interromper

Spec == Init /\ [][Next]_vars

\* the steps of a running process: every awaited call settles and the event
\* loop then runs the continuation
Passo ==
    \/ VerificarSync
    \/ ProbeInternet
    \/ ProbePlanilha
    \/ LoadLedger
    \/ Launch
    \/ LerCSV
    \/ GerarPDF
    \/ SendMail
    \/ Delay
    \/ Close

SpecFair == Spec /\ WF_vars(Passo)

\* ------------------------------------------------------------ properties
\* rows for which gerarPDF was called, and rows for which sendMail was called
RenderTentados == Range(certificates) \cup renderFalhou
EnvioTentados == enviados \cup envioFalhou

\* the ledger as the previous run left it
LedgerInicial == SubSeq(ledgerData, 1, ledgerLen0)

\* the lines of a ledger file: the pieces between line terminators
LinhasDoLedger(data) ==
    LET pieces == Split(data, NL)
    IN  IF pieces[Len(pieces)] = <<>>
          THEN Range(SubSeq(pieces, 1, Len(pieces) - 1))
          ELSE Range(pieces)

ComEmail(k) == ~roster[k].semEmail

\* lerCSV resolved in this run: the filter ran
Filtrou == pc \in {"gerar", "enviar", "delay", "close", "done"} /\ ~erro

IsPrefix(s, t) == Len(s) <= Len(t) /\ SubSeq(t, 1, Len(s)) = s

\* C1 as stated: the second of two successive runs on the same roster sends
\* no e-mail at all.
C1_SegundaRodadaNaoEnvia == run >= 2 => enviados = {}

\* C1, amended: in a run that follows another on the same roster, every row
\* whose normalised e-mail is in the ledger the earlier run left is excluded
\* by the filter and is neither rendered nor sent.
C1_RegistradosNaoReenviados ==
    \A k \in 1..Len(roster) :
        (ComEmail(k) /\ Trim(ToLowerCase(roster[k].email)) \in ParseLedger(LedgerInicial))
            => /\ k \notin Range(newParticipants)
               /\ k \notin RenderTentados
               /\ k \notin EnvioTentados

C1_Witness ==
    /\ run = 2
    /\ pc = "done"
    /\ Filtrou
    /\ \E k \in 1..Len(roster) :
        /\ ComEmail(k)
        /\ Trim(ToLowerCase(roster[k].email)) \in ParseLedger(LedgerInicial)
        /\ k \notin Range(newParticipants)

\* C2 as stated: a row is filtered out whenever its e-mail and some line of
\* the ledger are equal after lower-casing and trimming.
C2_TodaLinhaExclui ==
    Filtrou =>
        \A k \in 1..Len(roster) : \A l \in LinhasDoLedger(LedgerInicial) :
            (ComEmail(k) /\ Trim(ToLowerCase(roster[k].email)) = Trim(ToLowerCase(l)))
                => k \notin Range(newParticipants)

\* C2, amended: a row is filtered out whenever its e-mail and some non-blank
\* line of the ledger are equal after lower-casing and trimming.
C2_LinhaNaoVaziaExclui ==
    Filtrou =>
        \A k \in 1..Len(roster) : \A l \in LinhasDoLedger(LedgerInicial) :
            ( /\ ComEmail(k)
              /\ Trim(l) # <<>>
              /\ Trim(ToLowerCase(roster[k].email)) = Trim(ToLowerCase(l)) )
                => k \notin Range(newParticipants)

C2_Witness ==
    /\ Filtrou
    /\ <<"a">> \in LinhasDoLedger(LedgerInicial)
    /\ \E k \in 1..Len(roster) :
        /\ roster[k].email = <<" ", "A", " ">>
        /\ k \notin Range(newParticipants)

\* C3: the ledger only grows, and it grows by the normalised e-mail of the
\* certificate being dispatched, in the step in which its send succeeded.
C3_RegistradoImplicaEnviado ==
    [][ /\ IsPrefix(ledgerData, ledgerData')
        /\ (ledgerExists => ledgerExists')
        /\ (ledgerData' # ledgerData =>
              /\ pc = "enviar"
              /\ j <= Len(certificates)
              /\ certificates[j] \in enviados'
              /\ ledgerData' =
                    ledgerData \o Trim(ToLowerCase(roster[certificates[j]].email)) \o <<NL>>)
        /\ registrados' \subseteq enviados' ]_vars

C3_Witness == registrados # {} /\ Len(ledgerData) > ledgerLen0

\* C4: a row whose render failed is never dispatched or recorded, and when
\* the run ends every other retained row has been rendered, and dispatched
\* if its own render succeeded.
C4_FalhaDeRenderIsolada ==
    /\ renderFalhou \cap (Range(certificates) \cup EnvioTentados \cup registrados) = {}
    /\ (pc = "done" /\ ~erro) =>
          /\ Range(newParticipants) \subseteq RenderTentados
          /\ Range(certificates) = Range(newParticipants) \ renderFalhou
          /\ Range(certificates) \subseteq EnvioTentados

C4_Witness ==
    /\ pc = "done"
    /\ renderFalhou # {}
    /\ \E a, b \in 1..Len(newParticipants) :
        /\ a < b
        /\ newParticipants[a] \in renderFalhou
        /\ newParticipants[b] \in enviados

\* C5: a send that failed is not recorded, and when the run ends a send has
\* been attempted for every certificate, whatever failed before it.
C5_FalhaDeEnvioIsolada ==
    /\ envioFalhou \cap registrados = {}
    /\ (pc = "done" /\ ~erro) => Range(certificates) \subseteq EnvioTentados

C5_Witness ==
    /\ pc = "done"
    /\ \E a, b \in 1..Len(certificates) :
        /\ a < b
        /\ certificates[a] \in envioFalhou
        /\ certificates[b] \in EnvioTentados

C7_LinhaSemEmailExcluida ==
    /\ \A k \in 1..Len(roster) :
          (roster[k].semEmail \/ roster[k].email = <<>>)
              => k \notin (Range(newParticipants) \cup RenderTentados \cup EnvioTentados)
    /\ Filtrou =>
          /\ results = roster
          /\ \A k \in 1..Len(roster) :
                ( /\ ~roster[k].semEmail
                  /\ roster[k].email # <<>>
                  /\ Trim(ToLowerCase(roster[k].email)) \notin sentEmails )
                    => k \in Range(newParticipants)

C7_Witness ==
    /\ pc = "done"
    /\ Filtrou
    /\ \E k, m \in 1..Len(roster) :
        /\ roster[k].semEmail
        /\ m \in Range(newParticipants)
        /\ m \in enviados

\* C8: the validation looks at every item and reports every absent one; a
\* run with anything absent exits with code 1 having loaded no ledger,
\* fetched no roster, rendered, sent and written nothing; only a run with
\* nothing absent goes beyond the validation.
C8_ValidacaoCompleta ==
    /\ pc = "exited" =>
          /\ verificados = Itens
          /\ faltando = ausentes
          /\ faltando # {}
          /\ exitCode = 1
          /\ ~carregou
          /\ <<"GET", "planilha">> \notin netLog
          /\ browser = "none"
          /\ RenderTentados = {}
          /\ EnvioTentados = {}
          /\ Len(ledgerData) = ledgerLen0
    /\ pc \notin {"idle", "verificar", "internet", "planilha", "exited"} =>
          /\ verificados = Itens
          /\ ausentes = {}

C8_Witness ==
    /\ pc = "exited"
    /\ Cardinality(faltando \cap EnvVarSet) >= 2

\* C9 as stated: with a required environment variable absent, the run ends
\* having issued no network request and created no directory.
C9_AbortaSemAtividade ==
    (pc = "exited" /\ ausentes \cap EnvVarSet # {}) => (netLog = {} /\ ~criouPasta)

\* C9, amended: until the validation has passed, the only network requests
\* are the two HEAD probes and the only thing created is the pdfs directory:
\* no GET of the roster, no ledger read or write, no browser, no render and
\* no send happen before the abort.
C9_SoSondasAntesDoAborto ==
    pc \in {"verificar", "internet", "planilha", "exited"} =>
        /\ netLog \subseteq {<<"HEAD", "google">>, <<"HEAD", "planilha">>}
        /\ ~carregou
        /\ browser = "none"
        /\ RenderTentados = {}
        /\ EnvioTentados = {}
        /\ registrados = {}
        /\ Len(ledgerData) = ledgerLen0

C9_Witness ==
    /\ pc = "exited"
    /\ ausentes \cap EnvVarSet # {}
    /\ criouPasta
    /\ netLog = {<<"HEAD", "google">>, <<"HEAD", "planilha">>}

\* C10: a run whose ledger load failed is dead with code 1, and a run whose
\* roster fetch failed only closes the browser and ends; in both no render,
\* no send and no ledger write happen.
C10_ErroFatalNaoProcessa ==
    /\ (pc = "crashed" /\ ~carregou) =>
          /\ exitCode = 1
          /\ browser = "none"
          /\ RenderTentados = {}
          /\ EnvioTentados = {}
          /\ Len(ledgerData) = ledgerLen0
    /\ erro =>
          /\ pc \in {"close", "done"}
          /\ RenderTentados = {}
          /\ EnvioTentados = {}
          /\ registrados = {}
          /\ Len(ledgerData) = ledgerLen0

C10_Witness ==
    /\ pc = "done"
    /\ erro
    /\ Filtrar(roster, sentEmails) # <<>>

NoDup(sq) == \A a, b \in 1..Len(sq) : sq[a] = sq[b] => a = b

C12_PausaEntreEnvios ==
    (pc = "enviar" /\ ~interrompido /\ ordemEnvio # <<>>) => pausou

\* C13: every file of ./pdfs is named "<name> - (<email>).pdf" after the name
\* and the e-mail of a row that was rendered, and nothing else decides the
\* name, so that the files are never more than the distinct <<name, email>>
\* pairs rendered, over all runs.
C13_UmArquivoPorPar ==
    /\ pdfs = { <<pr[1], " ", "-", " ", "(">> \o pr[2] \o <<")", ".", "p", "d", "f">> :
                  pr \in renderizados }
    /\ Cardinality(pdfs) <= Cardinality(renderizados)

C13_Witness ==
    /\ \E a, b \in Range(certificates) : a # b /\ roster[a] = roster[b]
    /\ Cardinality(pdfs) = 1
    /\ Cardinality(renderizados) = 1

\* C14: when sent_emails.txt does not exist at the start of a run,
\* loadSentEmails cannot throw and returns the empty set, and the filter of
\* that run keeps every row whose e-mail is present and not empty.
C14_SemLedgerCarregaVazio ==
    /\ (pc = "crashed" /\ ~carregou) => ledgerLen0 > 0
    /\ (carregou /\ ledgerLen0 = 0) => sentEmails = {}
    /\ (Filtrou /\ ledgerLen0 = 0) =>
          Range(newParticipants) =
              {k \in 1..Len(roster) : ComEmail(k) /\ roster[k].email # <<>>}

C14_Witness ==
    /\ run = 1
    /\ ~ledgerExists
    /\ Filtrou
    /\ Len(newParticipants) = 2

\* C15 as stated: when a run has completed, the console holds each of the six
\* counts of the final summary (fetched, skipped, rendered, failed render,
\* sent, failed send), equal to the number of rows that took that outcome.
C15_ResumoFinal ==
    (pc = "done" /\ ~erro) =>
        LET reais == [carregado |-> Len(results),
                      ignorados |-> Len(results) - Len(newParticipants),
                      gerados |-> Len(certificates),
                      falhasRender |-> Cardinality(renderFalhou),
                      enviados |-> Cardinality(enviados),
                      falhasEnvio |-> Cardinality(envioFalhou)]
        IN  \A c \in DOMAIN reais :
                c \in DOMAIN logContagens /\ logContagens[c] = reais[c]

\* the phase of main at each position: validation, ledger load, browser
\* and roster fetch with its filter, rendering, dispatching, end
Fase(p) ==
    CASE p = "idle" -> 0
      [] p \in {"verificar", "internet", "planilha"} -> 1
      [] p = "load" -> 2
      [] p = "launch" -> 3
      [] p = "lerCSV" -> 4
      [] p = "gerar" -> 5
      [] p \in {"enviar", "delay"} -> 6
      [] p = "close" -> 7
      [] p \in {"done", "exited", "crashed"} -> 8

\* C16: within a run the phase never goes back; gerarPDF is called only
\* once the filter has produced newParticipants, and sendMail only once
\* gerarPDF has returned or thrown for every retained row.
C16_FasesSoAvancam ==
    /\ [][run' = run => Fase(pc') >= Fase(pc)]_vars
    /\ [](iniciados # <<>> => (Filtrou /\ Range(iniciados) \subseteq Range(newParticipants)))
    /\ [](ordemEnvio # <<>> =>
            /\ i > Len(newParticipants)
            /\ RenderTentados = Range(newParticipants)
            /\ Fase(pc) >= 6)
    /\ [](Fase(pc) < 5 => (iniciados = <<>> /\ ordemEnvio = <<>>))

C16_Witness ==
    /\ pc = "done"
    /\ Len(iniciados) = 2
    /\ Len(ordemEnvio) = 2
    /\ pausou

\* C17: when addSentEmail throws after sendMail resolved, the ledger is left
\* as it was, the recipient stays sent and unrecorded, and the loop goes on
\* with the next certificate: a run that reaches its end has called sendMail
\* for every certificate.
C17_FalhaDeRegistroIsolada ==
    /\ [][registroFalhou' \ registroFalhou # {} =>
            /\ ledgerData' = ledgerData
            /\ registroFalhou' \ registroFalhou \subseteq enviados' \ registrados'
            /\ j' = j + 1
            /\ pc' = IF j' <= Len(certificates) THEN "enviar" ELSE "close"
            /\ exitCode' = -1]_vars
    /\ [](registroFalhou \subseteq enviados \ registrados)
    /\ []((pc \in {"close", "done"} /\ ~erro) => Range(ordemEnvio) = Range(certificates))

C17_Witness ==
    /\ pc = "done"
    /\ exitCode = 0
    /\ Len(ordemEnvio) = 2
    /\ ordemEnvio[1] \in registroFalhou
    /\ ordemEnvio[2] \in registrados

\* the natural key of a roster row
Chave(k) == Trim(ToLowerCase(roster[k].email))

\* C18 as stated: in one run no two rows with the same normalised e-mail are
\* both rendered, and no two are both handed to sendMail.
C18_UmPorEndereco ==
    /\ \A a, b \in Range(iniciados) : Chave(a) = Chave(b) => a = b
    /\ \A a, b \in Range(ordemEnvio) : Chave(a) = Chave(b) => a = b

\* the lines appended for the rows of sq that were recorded, in order
RECURSIVE LinhasGravadas(_)
LinhasGravadas(sq) ==
    IF sq = <<>> THEN <<>>
    ELSE (IF Head(sq) \in registrados THEN LedgerLine(roster[Head(sq)].email) ELSE <<>>)
            \o LinhasGravadas(Tail(sq))

\* the ledger is what the run found followed by one line for each append
\* that completed, in the order of the sends
LedgerSoCommits == ledgerData = LedgerInicial \o LinhasGravadas(ordemEnvio)

\* C19 as stated: when the process is killed, the ledger holds what it held
\* plus exactly the completed appends, at most one recipient of the run is
\* sent and not recorded, and none is recorded and not sent.
C19_NoMaximoUmSemRegistro ==
    interrompido =>
        /\ LedgerSoCommits
        /\ Cardinality(enviados \ registrados) <= 1
        /\ registrados \subseteq enviados

\* C19, amended: wherever the process stands or is killed, the ledger holds
\* what it held plus exactly the completed appends, no recipient is recorded
\* and not sent, and the recipients sent and not recorded are those whose
\* append threw plus at most one whose sendMail was in flight at the kill.
C19_SemRegistroSoPorFalhaOuSinal ==
    /\ LedgerSoCommits
    /\ registrados \subseteq enviados
    /\ Cardinality(enviados \ (registrados \cup registroFalhou)) <= 1
    /\ ~interrompido => enviados \subseteq registrados \cup registroFalhou

C19_Witness ==
    /\ interrompido
    /\ registrados # {}
    /\ Cardinality(enviados \ (registrados \cup registroFalhou)) = 1

\* C20: a run launches at most one browser and opens at most one page, has
\* exactly one of each from the roster fetch on, every gerarPDF call happens
\* with that browser open, and gerarPDF is called for a row only when every
\* earlier call has returned or thrown.
C20_UmaSessaoUmRenderPorVez ==
    /\ sessoes <= 1
    /\ paginas <= 1
    /\ (Fase(pc) >= 4 /\ pc \notin {"exited", "crashed"}) => (sessoes = 1 /\ paginas = 1)
    /\ pc = "gerar" => browser = "open"
    /\ iniciados # <<>> => (sessoes = 1 /\ paginas = 1)
    /\ Len(iniciados) <= Cardinality(RenderTentados) + 1
    /\ pc # "gerar" => Len(iniciados) = Cardinality(RenderTentados)

C20_Witness ==
    /\ pc = "gerar"
    /\ ~interrompido
    /\ i = 2
    /\ iniciados = <<newParticipants[1], newParticipants[2]>>
    /\ sessoes = 1
    /\ paginas = 1

\* C21 as stated: a run that launched the browser does not end, by reaching
\* the last line of main or by an uncaught error, with the browser left
\* open: browser.close() ran on every path.
C21_SessaoSempreLiberada ==
    (pc \in {"done", "exited", "crashed"} /\ sessoes >= 1) => browser = "closed"

\* the rows of the roster, in roster order, that the filter kept and whose
\* gerarPDF returned
RenderizadosEmOrdem ==
    SelectSeq([k \in 1..Len(roster) |-> k],
              LAMBDA k : k \in Range(newParticipants) /\ k \in Range(certificates))

\* the sends so far follow the roster: sendMail was called for the first
\* rows, in roster order, of those kept and rendered, and for all of them
\* once the loop is over
EnvioEmOrdemDoRoster ==
    /\ ordemEnvio # <<>> => IsPrefix(ordemEnvio, RenderizadosEmOrdem)
    /\ (pc \in {"close", "done"} /\ ~erro) => ordemEnvio = RenderizadosEmOrdem

\* C22 as stated: sendMail is called in roster order for the rows kept and
\* rendered, and when it is called for the next recipient every earlier
\* recipient whose sendMail resolved is in the ledger.
C22_OrdemERegistroAntesDoProximo ==
    /\ EnvioEmOrdemDoRoster
    /\ \A k \in 1..(Len(ordemEnvio) - 1) :
          ordemEnvio[k] \in enviados => ordemEnvio[k] \in registrados

\* C22, amended: sendMail is called in roster order for the rows kept and
\* rendered, and when it is called for the next recipient addSentEmail has
\* returned or thrown for every earlier recipient whose sendMail resolved;
\* the ledger holds the lines of those for which it returned, in that order.
C22_OrdemERegistroTentado ==
    /\ EnvioEmOrdemDoRoster
    /\ \A k \in 1..(Len(ordemEnvio) - 1) :
          ordemEnvio[k] \in enviados =>
              ordemEnvio[k] \in registrados \cup registroFalhou
    /\ LedgerSoCommits

C22_Witness ==
    /\ pc = "done"
    /\ ordemEnvio = <<1, 2>>
    /\ registrados = {1, 2}
    /\ ledgerData =
          LedgerInicial \o LedgerLine(roster[1].email) \o LedgerLine(roster[2].email)

====
